---- MODULE Spec2Model ----
(***************************************************************************)
(* Model of src/regex.rs: tokenize, NFA::from_tokens, NFA::search and the  *)
(* Regex facade (new / is_match / find).                                   *)
(*                                                                         *)
(* Characters are one-character strings, a pattern or a text is a sequence *)
(* of characters.  Rust's 0-based Vec indices are kept as they are in the  *)
(* State records and in the worklist; the element a 0-based index i names  *)
(* is element i + 1 of the TLA+ sequence.                                  *)
(***************************************************************************)
EXTENDS Integers, Sequences, FiniteSets, TLC

(***************************************************************************)
(* Bounds of the model and the inputs drawn in Init and by the calls.      *)
(***************************************************************************)
MaxPatLen == 3

MaxTextLen == 2

PatternChars == {"a", ".", "*", "+", "?", "(", ")", "|"}

TextChars == {"a", "b"}

SeqsUpTo(S, n) == UNION {[1..k -> S] : k \in 0..n}

\* the patterns of the demonstration driver and of the examples of the
\* specification that the bounds above leave out, and the texts they are
\* matched against
ExamplePatterns ==
    { <<"a", ".", "b">>,
      <<"(", "a", "|", "b", ")", "c">>,
      <<"a", "(", "b", "c", ")", "*", "d">>,
      <<"a", ".", "*", "b">>,
      <<"a", "?", "b">>,
      <<"(", "a", "b", ")", "?", "c">> }

ExampleTexts ==
    { <<"a", "c">>, <<"b", "c">>, <<"c", "c">>, <<"c">>,
      <<"a", "d">>, <<"a", "b", "c", "d">>, <<"a", "b", "c", "b", "c">>,
      <<"a", "b", "c", "b", "c", "d">>,
      <<"a", "c", "b">>, <<"a", "x", "x", "b">>, <<"a", "x", "b", "b">> }

Patterns == SeqsUpTo(PatternChars, MaxPatLen) \cup ExamplePatterns

Texts == SeqsUpTo(TextChars, MaxTextLen) \cup ExampleTexts

\* the texts a Regex of pattern pat is queried with
TextsFor(pat) ==
    IF pat \in ExamplePatterns THEN Texts
    ELSE SeqsUpTo(TextChars, MaxTextLen)

(***************************************************************************)
(* enum Token and tokenize.                                                *)
(***************************************************************************)
Token_Char(ch) == [kind |-> "Char", c |-> ch]
Token_Dot == [kind |-> "Dot", c |-> ""]
Token_Star == [kind |-> "Star", c |-> ""]
Token_Plus == [kind |-> "Plus", c |-> ""]
Token_Question == [kind |-> "Question", c |-> ""]
Token_LParen == [kind |-> "LParen", c |-> ""]
Token_RParen == [kind |-> "RParen", c |-> ""]

tokenize_char(ch) ==
    CASE ch = "." -> Token_Dot
      [] ch = "*" -> Token_Star
      [] ch = "+" -> Token_Plus
      [] ch = "?" -> Token_Question
      [] ch = "(" -> Token_LParen
      [] ch = ")" -> Token_RParen
      [] OTHER    -> Token_Char(ch)

tokenize(pat) == [i \in 1..Len(pat) |-> tokenize_char(pat[i])]

(***************************************************************************)
(* enum State and NFA::from_tokens.                                        *)
(***************************************************************************)
State_Match == [kind |-> "Match", c |-> "", x |-> 0, y |-> 0]
State_Split(a, b) == [kind |-> "Split", c |-> "", x |-> a, y |-> b]
State_Char(ch, next) == [kind |-> "Char", c |-> ch, x |-> next, y |-> 0]
State_Dot(next) == [kind |-> "Dot", c |-> "", x |-> next, y |-> 0]

\* the locals of from_tokens before the loop
from_tokens_init == [states |-> <<>>, stack |-> <<>>, prev |-> 0]

\* one iteration of the loop over the tokens
from_tokens_step(acc, token) ==
    CASE token.kind = "Char" ->
           [acc EXCEPT !.states = Append(@, State_Char(token.c, acc.prev + 1)),
                       !.prev = @ + 1]
      [] token.kind = "Dot" ->
           [acc EXCEPT !.states = Append(@, State_Dot(acc.prev + 1)),
                       !.prev = @ + 1]
      [] token.kind = "Star" ->
           [acc EXCEPT !.states = Append(@, State_Split(acc.prev + 1, acc.prev))]
      [] token.kind = "Plus" ->
           [acc EXCEPT !.stack = Append(@, acc.prev)]
      [] token.kind = "Question" ->
           [acc EXCEPT !.states = Append(@, State_Split(acc.prev + 1, acc.prev + 2)),
                       !.prev = @ + 1]
      [] token.kind = "LParen" ->
           [acc EXCEPT !.stack = Append(@, acc.prev)]
      [] token.kind = "RParen" ->
           IF acc.stack # <<>>
           THEN [acc EXCEPT !.stack = SubSeq(@, 1, Len(@) - 1),
                            !.states = Append(@, State_Split(acc.stack[Len(acc.stack)],
                                                             acc.prev))]
           ELSE acc

RECURSIVE from_tokens_loop(_, _)
from_tokens_loop(tokens, n) ==
    IF n = 0 THEN from_tokens_init
    ELSE from_tokens_step(from_tokens_loop(tokens, n - 1), tokens[n])

\* the states of the NFA from_tokens returns
from_tokens(tokens) ==
    Append(from_tokens_loop(tokens, Len(tokens)).states, State_Match)

(***************************************************************************)
(* Option<usize>.                                                          *)
(***************************************************************************)
None == <<>>
Some(k) == <<k>>

(***************************************************************************)
(* State of the program: one Regex and the search call in progress.        *)
(***************************************************************************)
VARIABLES
    pattern,        \* the argument of Regex::new
    tokens,         \* Regex::new's local tokens
    new_result,     \* what Regex::new returned: "Regex" (it has no other return)
    states,         \* Regex.nfa.states
    phase,          \* "new" | "ready" | "search" | "done" | "diverged" | "panicked"
    call,           \* the query in progress or last made: "is_match" | "find"
    text,           \* the argument of that query
    text_chars,     \* search's local text_chars
    active_states,  \* search's local active_states, top of the stack last
    result,         \* the Option search returned
    processed,      \* the entries active_states.pop() took in this call, in order
    seen,           \* the worklists the loop of this call has started a round with
    earlier,        \* a query on this Regex returned before the one in progress
    popped,         \* the entry the last active_states.pop() took, if any
    state_read,     \* index of self.states read by the last iteration, if any
    text_read       \* index of text_chars read by the last iteration, if any

vars == <<pattern, tokens, new_result, states, phase, call, text, text_chars,
          active_states, result, processed, seen, earlier, popped,
          state_read, text_read>>

Init ==
    /\ pattern \in Patterns
    /\ tokens = <<>>
    /\ new_result = "none"
    /\ states = <<>>
    /\ phase = "new"
    /\ call = "none"
    /\ text = <<>>
    /\ text_chars = <<>>
    /\ active_states = <<>>
    /\ result = None
    /\ processed = <<>>
    /\ seen = {}
    /\ earlier = FALSE
    /\ popped = None
    /\ state_read = None
    /\ text_read = None

\* Regex::new
New ==
    /\ phase = "new"
    /\ tokens' = tokenize(pattern)
    /\ states' = from_tokens(tokens')
    /\ new_result' = "Regex"
    /\ phase' = "ready"
    /\ UNCHANGED <<pattern, call, text, text_chars, active_states, result,
                   processed, seen, earlier, popped, state_read, text_read>>


\* search with its worklist kept from the call before instead of made anew
search_begin_stale(t) ==
    /\ text' = t
    /\ text_chars' = t
    /\ active_states' = Append(active_states, <<0, 0>>)
    /\ result' = None
    /\ processed' = <<>>
    /\ seen' = {}
    /\ earlier' = (phase = "done")
    /\ popped' = None
    /\ state_read' = None
    /\ text_read' = None
    /\ phase' = "search"
    /\ UNCHANGED <<pattern, tokens, new_result, states>>

\* search is entered: its locals active_states and text_chars are created
search_begin(t) ==
    /\ text' = t
    /\ text_chars' = t
    /\ active_states' = << <<0, 0>> >>
    /\ result' = None
    /\ processed' = <<>>
    /\ seen' = {}
    /\ earlier' = (phase = "done")
    /\ popped' = None
    /\ state_read' = None
    /\ text_read' = None
    /\ phase' = "search"
    /\ UNCHANGED <<pattern, tokens, new_result, states>>

\* Regex::is_match -> NFA::is_match -> search
is_match(t) ==
    /\ phase \in {"ready", "done"}
    /\ call' = "is_match"
    /\ search_begin(t)

\* Regex::find -> search
find(t) ==
    /\ phase \in {"ready", "done"}
    /\ call' = "find"
    /\ search_begin(t)

\* the entry active_states.pop() takes, and what is left of the stack
Top == active_states[Len(active_states)]
Rest == SubSeq(active_states, 1, Len(active_states) - 1)
state_idx == Top[1]
text_idx == Top[2]

\* the guard with > for >=: the index states.len() is let through
OutOfRange_off_by_one(idx) == idx > Len(states)

\* the guard of the loop body: an index at or past the end is skipped
OutOfRange(idx) == idx >= Len(states)

\* &self.states[state_idx]; Rust panics on an index out of bounds
StateAt(idx) ==
    IF idx < Len(states) THEN states[idx + 1]
    ELSE [kind |-> "panic", c |-> "", x |-> 0, y |-> 0]

\* The loop is deterministic in its worklist, so a round that starts with a
\* worklist an earlier round of the call started with repeats for ever.
Repeats == active_states \in seen

\* A search that has not returned with more entries than this on its stack
\* never returns.  Below the entry being processed the stack holds at most
\* one pending sibling per ancestor, so more than
\* states.len() * (text_chars.len() + 1) + 1 entries mean that some
\* (state_idx, text_idx) pair is its own ancestor; the loop is
\* deterministic, so it reaches that pair again and again, one more entry
\* on the stack each round, until the allocation fails.
WorklistLimit == Len(states) * (Len(text_chars) + 1) + 1

Running ==
    phase = "search" /\ Len(active_states) <= WorklistLimit /\ ~Repeats

\* while let Some(..) = active_states.pop() fails: the loop ends, None
SearchNone ==
    /\ Running
    /\ active_states = <<>>
    /\ result' = None
    /\ phase' = "done"
    /\ popped' = None
    /\ state_read' = None
    /\ text_read' = None
    /\ UNCHANGED <<pattern, tokens, new_result, states, call, text, text_chars,
                   active_states, processed, seen, earlier>>

\* if state_idx >= self.states.len() { continue; }
SearchSkip ==
    /\ Running
    /\ active_states # <<>>
    /\ OutOfRange(state_idx)
    /\ active_states' = Rest
    /\ popped' = Top
    /\ processed' = Append(processed, Top)
    /\ seen' = seen \cup {active_states}
    /\ state_read' = None
    /\ text_read' = None
    /\ UNCHANGED <<pattern, tokens, new_result, states, phase, call, text,
                   text_chars, result, earlier>>

\* State::Match => return Some(text_idx)
SearchMatch ==
    /\ Running
    /\ active_states # <<>>
    /\ ~OutOfRange(state_idx)
    /\ StateAt(state_idx).kind = "Match"
    /\ active_states' = Rest
    /\ result' = Some(text_idx)
    /\ phase' = "done"
    /\ popped' = Top
    /\ processed' = Append(processed, Top)
    /\ seen' = seen \cup {active_states}
    /\ state_read' = Some(state_idx)
    /\ text_read' = None
    /\ UNCHANGED <<pattern, tokens, new_result, states, call, text, text_chars,
                   earlier>>

\* State::Char(c, next)
SearchChar ==
    /\ Running
    /\ active_states # <<>>
    /\ ~OutOfRange(state_idx)
    /\ StateAt(state_idx).kind = "Char"
    /\ popped' = Top
    /\ processed' = Append(processed, Top)
    /\ seen' = seen \cup {active_states}
    /\ state_read' = Some(state_idx)
    /\ IF text_idx < Len(text_chars)
       THEN /\ text_read' = Some(text_idx)
            /\ IF text_chars[text_idx + 1] = StateAt(state_idx).c
               THEN active_states' =
                        Append(Rest, <<StateAt(state_idx).x, text_idx + 1>>)
               ELSE active_states' = Rest
       ELSE /\ text_read' = None
            /\ active_states' = Rest
    /\ UNCHANGED <<pattern, tokens, new_result, states, phase, call, text,
                   text_chars, result, earlier>>

\* State::Dot(next)
SearchDot ==
    /\ Running
    /\ active_states # <<>>
    /\ ~OutOfRange(state_idx)
    /\ StateAt(state_idx).kind = "Dot"
    /\ popped' = Top
    /\ processed' = Append(processed, Top)
    /\ seen' = seen \cup {active_states}
    /\ state_read' = Some(state_idx)
    /\ text_read' = None
    /\ IF text_idx < Len(text_chars)
       THEN active_states' = Append(Rest, <<StateAt(state_idx).x, text_idx + 1>>)
       ELSE active_states' = Rest
    /\ UNCHANGED <<pattern, tokens, new_result, states, phase, call, text,
                   text_chars, result, earlier>>

\* State::Split(x, y)
SearchSplit ==
    /\ Running
    /\ active_states # <<>>
    /\ ~OutOfRange(state_idx)
    /\ StateAt(state_idx).kind = "Split"
    /\ popped' = Top
    /\ processed' = Append(processed, Top)
    /\ seen' = seen \cup {active_states}
    /\ state_read' = Some(state_idx)
    /\ text_read' = None
    /\ active_states' = Append(Append(Rest, <<StateAt(state_idx).x, text_idx>>),
                               <<StateAt(state_idx).y, text_idx>>)
    /\ UNCHANGED <<pattern, tokens, new_result, states, phase, call, text,
                   text_chars, result, earlier>>

\* The call ends without returning: a panic of the bounds check on
\* self.states[state_idx], or the loop that never ends (the stack has
\* outgrown WorklistLimit and grows until the allocation fails, or the
\* loop is back at a worklist it has had).
SearchAborts ==
    /\ phase = "search"
    /\ \/ Len(active_states) > WorklistLimit
       \/ Repeats
       \/ /\ active_states # <<>>
          /\ ~OutOfRange(state_idx)
          /\ StateAt(state_idx).kind = "panic"
    /\ phase' = IF Len(active_states) > WorklistLimit \/ Repeats
                THEN "diverged" ELSE "panicked"
    /\ UNCHANGED <<pattern, tokens, new_result, states, call, text, text_chars,
                   active_states, result, processed, seen, earlier, popped,
                   state_read, text_read>>

Next ==
    \/ New
    \/ \E t \in TextsFor(pattern) : is_match(t)
    \/ \E t \in TextsFor(pattern) : find(t)
    \/ SearchNone
    \/ SearchSkip
    \/ SearchMatch
    \/ SearchChar
    \/ SearchDot
    \/ SearchSplit
    \/ SearchAborts

Spec == Init /\ [][Next]_vars

TypeOK ==
    /\ pattern \in Patterns
    /\ phase \in {"new", "ready", "search", "done", "diverged", "panicked"}
    /\ call \in {"none", "is_match", "find"}
    /\ text \in Texts \cup {<<>>}

(***************************************************************************)
(* Reference semantics the properties are stated against.                  *)
(***************************************************************************)
\* the execution steps of the Program from one (instruction, offset) pair
PathSteps(cfg) ==
    IF cfg[1] >= Len(states) THEN {}
    ELSE LET s == states[cfg[1] + 1] IN
         CASE s.kind = "Match" -> {}
           [] s.kind = "Char" ->
                IF cfg[2] < Len(text) /\ text[cfg[2] + 1] = s.c
                THEN {<<s.x, cfg[2] + 1>>} ELSE {}
           [] s.kind = "Dot" ->
                IF cfg[2] < Len(text) THEN {<<s.x, cfg[2] + 1>>} ELSE {}
           [] s.kind = "Split" -> {<<s.x, cfg[2]>>, <<s.y, cfg[2]>>}

RECURSIVE PathClosure(_)
PathClosure(S) ==
    LET T == S \cup UNION {PathSteps(cfg) : cfg \in S}
    IN  IF T = S THEN S ELSE PathClosure(T)

\* the offsets at which some execution path from (0, 0) reaches Accept
AcceptOffsets ==
    {cfg[2] : cfg \in {d \in PathClosure({<<0, 0>>}) :
                          d[1] < Len(states) /\ states[d[1] + 1].kind = "Match"}}

PathReachesAccept == AcceptOffsets # {}

\* The pattern syntax of the specification: alternation of concatenations
\* of atoms (literal, '.', group) each with at most one postfix operator.
\* A parse result is [ok, nullable, pos], pos the next character to read.
ParseFail == [ok |-> FALSE, nullable |-> FALSE, pos |-> 0]

RECURSIVE ParseAlt(_, _), ParseConcat(_, _), ParseRep(_, _), ParseAtom(_, _)
ParseAtom(p, i) ==
    IF i > Len(p) THEN ParseFail
    ELSE IF p[i] = "("
         THEN LET r == ParseAlt(p, i + 1) IN
              IF r.ok /\ r.pos <= Len(p) /\ p[r.pos] = ")"
              THEN [r EXCEPT !.pos = @ + 1] ELSE ParseFail
         ELSE IF p[i] \in {")", "|", "*", "+", "?"} THEN ParseFail
         ELSE [ok |-> TRUE, nullable |-> FALSE, pos |-> i + 1]

ParseRep(p, i) ==
    LET a == ParseAtom(p, i) IN
    IF ~a.ok THEN ParseFail
    ELSE IF a.pos <= Len(p) /\ p[a.pos] \in {"*", "?"}
         THEN [ok |-> TRUE, nullable |-> TRUE, pos |-> a.pos + 1]
         ELSE IF a.pos <= Len(p) /\ p[a.pos] = "+"
         THEN [a EXCEPT !.pos = @ + 1]
         ELSE a

ParseConcat(p, i) ==
    LET r == ParseRep(p, i) IN
    IF ~r.ok THEN ParseFail
    ELSE IF r.pos > Len(p) \/ p[r.pos] \in {"|", ")"} THEN r
    ELSE LET rest == ParseConcat(p, r.pos) IN
         IF ~rest.ok THEN ParseFail
         ELSE [rest EXCEPT !.nullable = @ /\ r.nullable]

ParseAlt(p, i) ==
    LET c == ParseConcat(p, i) IN
    IF ~c.ok THEN ParseFail
    ELSE IF c.pos <= Len(p) /\ p[c.pos] = "|"
         THEN LET rest == ParseAlt(p, c.pos + 1) IN
              IF ~rest.ok THEN ParseFail
              ELSE [rest EXCEPT !.nullable = @ \/ c.nullable]
         ELSE c

WellFormed(p) ==
    p = <<>> \/ (ParseAlt(p, 1).ok /\ ParseAlt(p, 1).pos = Len(p) + 1)

\* the language of a well-formed pattern contains the empty string
Nullable(p) == p = <<>> \/ ParseAlt(p, 1).nullable

\* nesting depth of the groups after the first n characters; -1 once a ')'
\* has come with no group open
RECURSIVE GroupDepth(_, _)
GroupDepth(p, n) ==
    IF n = 0 THEN 0
    ELSE LET d == GroupDepth(p, n - 1) IN
         IF d < 0 THEN d
         ELSE IF p[n] = "(" THEN d + 1
         ELSE IF p[n] = ")" THEN d - 1
         ELSE d

UnbalancedGroup(p) == GroupDepth(p, Len(p)) # 0

\* a repetition operator with nothing before it in its branch, or an
\* alternation operator with an empty branch on one side
InvalidOperatorPlacement(p) ==
    \E i \in 1..Len(p) :
       \/ /\ p[i] \in {"*", "+", "?"}
          /\ (i = 1 \/ p[i - 1] \in {"(", "|"})
       \/ /\ p[i] = "|"
          /\ \/ i = 1
             \/ i = Len(p)
             \/ p[i - 1] \in {"(", "|"}
             \/ p[i + 1] \in {")", "|"}

\* n copies of the character ch
Copies(ch, n) == [i \in 1..n |-> ch]

\* an is_match call is over: search has returned or will never return
IsMatchOver == call = "is_match" /\ phase \in {"done", "diverged", "panicked"}

\* is_match returned true
IsMatchTrue == call = "is_match" /\ phase = "done" /\ result # None

\* is_match returned false
IsMatchFalse == call = "is_match" /\ phase = "done" /\ result = None

\* The search of one query taken alone: the loop run on a worklist of its
\* own for at most fuel rounds; <<-1>> when it has not returned by then.
RECURSIVE FreshSearch(_, _)
FreshSearch(stack, fuel) ==
    IF stack = <<>> THEN None
    ELSE IF fuel = 0 THEN <<-1>>
    ELSE LET top == stack[Len(stack)]
             rest == SubSeq(stack, 1, Len(stack) - 1)
         IN  IF top[1] >= Len(states) THEN FreshSearch(rest, fuel - 1)
             ELSE LET s == states[top[1] + 1] IN
                  CASE s.kind = "Match" -> Some(top[2])
                    [] s.kind = "Char" ->
                         IF top[2] < Len(text) /\ text[top[2] + 1] = s.c
                         THEN FreshSearch(Append(rest, <<s.x, top[2] + 1>>),
                                          fuel - 1)
                         ELSE FreshSearch(rest, fuel - 1)
                    [] s.kind = "Dot" ->
                         IF top[2] < Len(text)
                         THEN FreshSearch(Append(rest, <<s.x, top[2] + 1>>),
                                          fuel - 1)
                         ELSE FreshSearch(rest, fuel - 1)
                    [] s.kind = "Split" ->
                         FreshSearch(Append(Append(rest, <<s.x, top[2]>>),
                                            <<s.y, top[2]>>), fuel - 1)

\* a find call is over: search has returned or will never return
FindOver == call = "find" /\ phase \in {"done", "diverged", "panicked"}

\* the instructions next and branch indices lead to from instruction i
Targets(i) ==
    IF i >= Len(states) THEN {}
    ELSE LET s == states[i + 1] IN
         CASE s.kind = "Match" -> {}
           [] s.kind = "Split" -> {s.x, s.y}
           [] OTHER -> {s.x}

RECURSIVE IndexClosure(_)
IndexClosure(S) ==
    LET T == S \cup UNION {Targets(i) : i \in S}
    IN  IF T = S THEN S ELSE IndexClosure(T)

\* the token kind the specification gives a pattern character, in the names
\* of enum Token (Dot for AnyChar, LParen and RParen for GroupOpen and
\* GroupClose, Char for Literal); Pipe has no variant in enum Token
SpecTokenKind(ch) ==
    CASE ch = "." -> "Dot"
      [] ch = "*" -> "Star"
      [] ch = "+" -> "Plus"
      [] ch = "?" -> "Question"
      [] ch = "(" -> "LParen"
      [] ch = ")" -> "RParen"
      [] ch = "|" -> "Pipe"
      [] OTHER    -> "Char"

(***************************************************************************)
(* Properties.                                                             *)
(***************************************************************************)
\* C1: every is_match or find call terminates: the worklist loop returns a
\* result for every pattern and text, Star and Plus patterns included.
\* Stated on the patterns of the specification's syntax, the ones no
\* compile error is expected for.
C1_SearchTerminates == WellFormed(pattern) => phase # "diverged"

\* C2: is_match(text) returns true if and only if some execution path of
\* the Program from (instruction 0, offset 0) reaches the Accept
\* instruction.  Stated on the patterns of the specification's syntax.
C2_IsMatchIffPath ==
    (IsMatchOver /\ WellFormed(pattern))
        => (IsMatchTrue <=> PathReachesAccept)

\* C3: compiling a pattern with unbalanced parentheses, a ')' with no open
\* group or a '(' never closed, yields the error UnbalancedGroup and no
\* Regex.
C3_UnbalancedRejected ==
    (phase # "new" /\ UnbalancedGroup(pattern)
                   /\ ~InvalidOperatorPlacement(pattern))
        => (new_result = "UnbalancedGroup" /\ states = <<>>)

\* C4: compiling a pattern in which a repetition or alternation operator
\* has no preceding atom yields the error InvalidOperatorPlacement and no
\* Regex, and no instruction is emitted for the operator.
C4_InvalidPlacementRejected ==
    (phase # "new" /\ InvalidOperatorPlacement(pattern)
                   /\ ~UnbalancedGroup(pattern))
        => (new_result = "InvalidOperatorPlacement" /\ states = <<>>)

\* C5: for every well-formed pattern, is_match("") is true if and only if
\* the language of the pattern contains the empty string.
C5_EmptyTextIffNullable ==
    (IsMatchOver /\ text = <<>> /\ WellFormed(pattern))
        => (IsMatchTrue <=> Nullable(pattern))

\* C6: for a literal c, is_match of "c*" is true on n >= 0 copies of c, and
\* is_match of "c+" is true on n >= 1 copies of c and false on the empty
\* text.
C6_StarAndPlusOfLiteral ==
    \A ch \in TextChars : \A n \in 0..Len(text) :
        (IsMatchOver /\ text = Copies(ch, n)) =>
            /\ pattern = <<ch, "*">> => IsMatchTrue
            /\ pattern = <<ch, "+">> =>
                   IF n >= 1 THEN IsMatchTrue ELSE IsMatchFalse

\* C7: alternation inside a group selects either branch: is_match of
\* "(a|b)c" is true on "ac" and on "bc" and false on "cc".
C7_AlternationInGroup ==
    (IsMatchOver /\ pattern = <<"(", "a", "|", "b", ")", "c">>) =>
        /\ text \in {<<"a", "c">>, <<"b", "c">>} => IsMatchTrue
        /\ text = <<"c", "c">> => IsMatchFalse

\* C8: is_match of "a(bc)*d" is true on "ad", "abcd" and "abcbcd" and false
\* on "abcbc".
C8_StarOfGroup ==
    (IsMatchOver /\ pattern = <<"a", "(", "b", "c", ")", "*", "d">>) =>
        /\ text \in {<<"a", "d">>, <<"a", "b", "c", "d">>,
                     <<"a", "b", "c", "b", "c", "d">>} => IsMatchTrue
        /\ text = <<"a", "b", "c", "b", "c">> => IsMatchFalse

\* C9: the wildcard consumes exactly one character: for literals x and y,
\* is_match of "x.y" is true on every three-character text x?y, false on
\* "xy" and false on every text with two or more characters between x and y.
C9_DotConsumesOne ==
    \A x \in TextChars : \A y \in TextChars :
        (IsMatchOver /\ pattern = <<x, ".", y>>) =>
            /\ (Len(text) = 3 /\ text[1] = x /\ text[3] = y) => IsMatchTrue
            /\ text = <<x, y>> => IsMatchFalse
            /\ (Len(text) >= 4 /\ text[1] = x /\ text[Len(text)] = y)
                   => IsMatchFalse

\* C10: no step of a search reads self.states at an index >= states.len()
\* or text_chars at an index >= text_chars.len(), no step panics, and what
\* search returns is None or Some(offset) with offset within the text.
C10_RuntimeNeverFails ==
    /\ phase # "panicked"
    /\ state_read # None => state_read[1] < Len(states)
    /\ text_read # None => text_read[1] < Len(text_chars)
    /\ phase = "done" => (result = None \/ result[1] \in 0..Len(text))

\* an entry whose instruction index is at or past the end of the
\* instruction list has been taken from the worklist and skipped
C10_Witness ==
    /\ phase = "search"
    /\ popped # None
    /\ popped[1] >= Len(states)
    /\ state_read = None

\* C12: across any sequence of is_match and find calls on one Regex, every
\* call leaves the instruction list as Regex::new built it and starts from
\* a fresh worklist seeded only with (0, 0), so what a query returns is
\* what the search of its text alone returns, whatever was queried before.
C12_QueriesIndependent ==
    /\ phase # "new" =>
           (tokens = tokenize(pattern) /\ states = from_tokens(tokens))
    /\ (phase = "search" /\ processed = <<>>) =>
           active_states = << <<0, 0>> >>
    /\ phase = "done" =>
           result = FreshSearch(<< <<0, 0>> >>, Len(processed) + 1)

\* a query made after an earlier query on the same Regex has returned a match
C12_Witness ==
    /\ phase = "done"
    /\ earlier
    /\ result # None
    /\ Len(processed) > 1

\* C13: whenever find(text) returns an offset k, 0 <= k <= the length of
\* the text and some execution path from (0, 0) reaches Accept after
\* exactly the first k characters; when no execution path reaches Accept,
\* find returns none.  Stated on the patterns of the specification's syntax.
C13_FindOffset ==
    (FindOver /\ WellFormed(pattern)) =>
        /\ (phase = "done" /\ result # None) =>
               (result[1] \in 0..Len(text) /\ result[1] \in AcceptOffsets)
        /\ ~PathReachesAccept => (phase = "done" /\ result = None)

\* C14: is_match checks the entire text: whenever it returns true, some
\* execution path reaches Accept at the offset equal to the length of the
\* text.  Stated on the patterns of the specification's syntax.
C14_IsMatchWholeText ==
    (IsMatchTrue /\ WellFormed(pattern)) => Len(text) \in AcceptOffsets

\* C15: within one call the search never processes the same (instruction
\* index, text offset) pair twice.  Stated on the patterns of the
\* specification's syntax.
C15_NoPairTwice ==
    WellFormed(pattern) =>
        \A i \in 1..Len(processed) : \A j \in 1..Len(processed) :
            i # j => processed[i] # processed[j]

\* C16: in every state of a search call, the number of worklist entries,
\* and the number of entries added during the call (those taken off the
\* worklist and those still on it), is at most
\* (number of instructions) x (text length + 1).  Stated on the patterns of
\* the specification's syntax.
C16_WorklistBounded ==
    (phase \in {"search", "done", "diverged"} /\ WellFormed(pattern)) =>
        /\ Len(active_states) <= Len(states) * (Len(text_chars) + 1)
        /\ Len(processed) + Len(active_states)
               <= Len(states) * (Len(text_chars) + 1)

\* C17: for every pattern that compiles, the next index of every Char and
\* Dot instruction and both branch indices of every Split instruction are
\* less than the number of instructions.
C17_IndicesValid ==
    (phase # "new" /\ WellFormed(pattern)) =>
        \A i \in 1..Len(states) :
            /\ states[i].kind \in {"Char", "Dot", "Split"} =>
                   states[i].x < Len(states)
            /\ states[i].kind = "Split" => states[i].y < Len(states)

\* C18: every compiled Program ends with an Accept instruction that is the
\* only Accept of the list and that is reachable from instruction 0 by
\* following next and branch indices.
C18_AcceptLastAndReachable ==
    (phase # "new" /\ WellFormed(pattern)) =>
        /\ states[Len(states)].kind = "Match"
        /\ \A i \in 1..Len(states) - 1 : states[i].kind # "Match"
        /\ (Len(states) - 1) \in IndexClosure({0})

\* C19: tokenize emits exactly one token per pattern character, in order:
\* each of . * + ? ( ) | becomes its structural token and every other
\* character c becomes Literal(c); '|' is never emitted as a Literal.
C19_TokenizeStructural ==
    phase # "new" =>
        /\ Len(tokens) = Len(pattern)
        /\ \A i \in 1..Len(pattern) :
               /\ tokens[i].kind = SpecTokenKind(pattern[i])
               /\ tokens[i].kind = "Char" => tokens[i].c = pattern[i]

\* C20: zero-or-one repetition has both zero and one occurrence as
\* execution paths: find of the pattern "a?b" is 1 on the text "b" and 2 on
\* the text "ab".
C20_QuestionBothWays ==
    (FindOver /\ pattern = <<"a", "?", "b">>) =>
        /\ text = <<"b">> => (phase = "done" /\ result = Some(1))
        /\ text = <<"a", "b">> => (phase = "done" /\ result = Some(2))

====
